---------------------------- MODULE Spec2Model ----------------------------
(***************************************************************************)
(* Model of the detection / alert core of "junior project/app.py":         *)
(* AccidentDetector.detect_accident, the cooldown gate of the /detect      *)
(* route, send_alert with its sinks, and the /accidents history query.     *)
(*                                                                         *)
(* Units.  Confidences, thresholds and motion scores are hundredths        *)
(* (0.3 is 30); an accident score is a sum of confidence * motion and is   *)
(* therefore in ten-thousandths (0.54 is 5400).  Time is whole seconds.    *)
(***************************************************************************)
EXTENDS Integers, Sequences, FiniteSets, TLC

(***************************************************************************)
(* Bounds of the model.                                                    *)
(***************************************************************************)
MaxClock == 42          \* the clock is explored up to this second
MaxBoxes == 2           \* boxes YOLO reports for one frame
MaxDispatched == 2      \* records written by direct send_alert calls
MaxRecords == 52        \* records in a store when the history is queried
MaxMovedRecords == 4    \* records in a store while the location still changes

Threads == {1, 2}       \* concurrent /detect requests (Flask is threaded)

(***************************************************************************)
(* Program constants.                                                      *)
(***************************************************************************)
ALERT_COOLDOWN_SECONDS == 20
VEHICLE_CLASSES == {2, 3, 5, 7}
CONF_FLOOR == 30
MOTION_FLOOR == 15
THRESHOLD_MIN == 10
THRESHOLD_MAX == 100
INITIAL_THRESHOLD == 50
HISTORY_LIMIT == 50
emergency_contacts == {1, 2}     \* "+1234567890", "+0987654321"

VARIABLES
    COMPUTER_VISION_AVAILABLE,   \* cv2 / numpy / PIL imported
    YOLO_AVAILABLE,              \* ultralytics imported
    model,                       \* TRUE when YOLO('yolov8n.pt') loaded
    mongo,                       \* accidents_collection is not None
    firestore,                   \* db_firestore is not None
    twilio_client,               \* twilio client configured
    smtp,                        \* SMTP_HOST, SMTP_PORT, SMTP_USER, SMTP_PASSWORD, ALERT_EMAILS set
    clock,                       \* the wall clock as last read
    last_alert_time,
    detector,                    \* the module-level AccidentDetector
    current_location,
    accidents_collection,        \* documents of the MongoDB collection
    accidents_db,                \* the in-memory list
    firestore_docs,              \* documents of the Firestore collection
    pc, loc,                     \* per request thread: position and locals
    resp,                        \* per request thread: the last JSON response
    passLog,                     \* history: 'now' of every gate pass, in order
    suppressed,                  \* history: 'now' of the checks suppressed since the last pass
    evalLog,                     \* history: the last two detect_accident calls
    dispatch,                    \* history: what the last send_alert call did
    history                      \* the JSON response of the last /accidents request

vars == << COMPUTER_VISION_AVAILABLE, YOLO_AVAILABLE, model, mongo, firestore,
           twilio_client, smtp, clock, last_alert_time, detector,
           current_location, accidents_collection, accidents_db,
           firestore_docs, pc, loc, resp, passLog, suppressed, evalLog, dispatch,
           history >>

config == << COMPUTER_VISION_AVAILABLE, YOLO_AVAILABLE, model, mongo, firestore,
             twilio_client, smtp >>


(***************************************************************************)
(* Input domains.                                                          *)
(***************************************************************************)
\* A decoded frame: its array shape and its (uniform) luminance in hundredths
\* of 255.  NoFrame stands for previous_frame = None.
NoFrame == [shape |-> 0, lum |-> 0]
Frames == { [shape |-> 1, lum |-> 0], [shape |-> 1, lum |-> 15],
            [shape |-> 1, lum |-> 60], [shape |-> 2, lum |-> 0] }

\* What a request with image data carries in 'image'.
Images == { [kind |-> "undecodable", frame |-> NoFrame] }
          \cup { [kind |-> "frame", frame |-> f] : f \in Frames }

\* One YOLO box: class id and confidence (hundredths).
Box(c, p) == [class_id |-> c, confidence |-> p]
BoxKinds == << Box(2, 90), Box(7, 31), Box(2, 30), Box(0, 90) >>
\* The lists of up to MaxBoxes boxes, one list for each multiset of boxes.
BoxLists ==
    LET idx == UNION { [1..n -> 1..Len(BoxKinds)] : n \in 0..MaxBoxes }
        sorted == { s \in idx : \A i \in 1..(Len(s) - 1) : s[i] <= s[i + 1] }
    IN  { [i \in 1..Len(s) |-> BoxKinds[s[i]]] : s \in sorted }

\* What the request carries in 'threshold' (hundredths).
Overrides == { [kind |-> "none", val |-> 0],
               [kind |-> "num", val |-> -500], [kind |-> "num", val |-> 5000] }

\* Further values of 'threshold': NaN (which float() accepts) and a value
\* float() rejects.
OtherOverrides == { [kind |-> "nan", val |-> 0], [kind |-> "bad", val |-> 0] }

\* random.uniform(0.1, 0.9), random.uniform(0.1, 0.95), random.randint(0, 3)
\* as (score or confidence, vehicles) pairs.
MockDraws == { <<9000, 3>>, <<1000, 3>>, <<9000, 0>> }
DemoDraws == { <<9500, 3>>, <<1000, 0>> }

\* Seconds that pass before the clock is read again.
ClockSteps == {0, 10, 11}

\* Locations in whole degrees; (28, 77) is the default, Delhi.
Coordinates == { [lat |-> 28, lng |-> 77], [lat |-> 12, lng |-> 34] }

Abs(x) == IF x < 0 THEN -x ELSE x
Min(a, b) == IF a < b THEN a ELSE b
Max(a, b) == IF a > b THEN a ELSE b

(***************************************************************************)
(* AccidentDetector                                                        *)
(***************************************************************************)
NewDetector == [accident_threshold |-> INITIAL_THRESHOLD,
                previous_frame |-> NoFrame,
                accident_detected |-> FALSE]

\* The result tuple (is_accident, accident_score, vehicles_detected, boxes_info).
Outcome(a, s, v, b) ==
    [is_accident |-> a, accident_score |-> s, vehicles_detected |-> v, boxes |-> b]

\* except Exception: return False, 0, 0, []
FailedOutcome == Outcome(FALSE, 0, 0, << >>)

\* if class_id in [2, 3, 5, 7] and confidence > 0.3
IsVehicle(box) ==
    box.class_id \in VEHICLE_CLASSES /\ box.confidence > CONF_FLOOR

\* np.mean(cv2.absdiff(gray_current, gray_previous)) / 255.0
MotionScore(cur, prev) == Abs(cur.lum - prev.lum)

\* cv2.absdiff raises on arrays of different sizes
AbsdiffRaises(cur, prev) == cur.shape # prev.shape

\* A variant of the loop body that takes a missing previous frame for full
\* motion (a comparison with a black frame of motion 1.0).
BoxStepFirstFrameMoves(acc, box, frame, prev) ==
    IF acc.raised \/ ~IsVehicle(box) THEN acc
    ELSE LET counted == [acc EXCEPT !.vehicles = @ + 1,
                                    !.boxes = Append(@, box)]
         IN  IF prev = NoFrame
             THEN [counted EXCEPT !.score = @ + box.confidence * 100]
             ELSE IF AbsdiffRaises(frame, prev)
                  THEN [counted EXCEPT !.raised = TRUE]
                  ELSE IF MotionScore(frame, prev) > MOTION_FLOOR
                       THEN [counted EXCEPT
                               !.score = @ + box.confidence * MotionScore(frame, prev)]
                       ELSE counted

\* A variant of the loop body in which only the first vehicle of a frame
\* contributes to the score.
BoxStepFirstOnly(acc, box, frame, prev) ==
    IF acc.raised \/ ~IsVehicle(box) THEN acc
    ELSE LET counted == [acc EXCEPT !.vehicles = @ + 1,
                                    !.boxes = Append(@, box)]
         IN  IF prev = NoFrame THEN counted
             ELSE IF AbsdiffRaises(frame, prev)
                  THEN [counted EXCEPT !.raised = TRUE]
                  ELSE IF MotionScore(frame, prev) > MOTION_FLOOR /\ acc.vehicles = 0
                       THEN [counted EXCEPT
                               !.score = @ + box.confidence * MotionScore(frame, prev)]
                       ELSE counted

\* The body of "for box in boxes" for one box, on the accumulator acc.
BoxStep(acc, box, frame, prev) ==
    IF acc.raised \/ ~IsVehicle(box) THEN acc
    ELSE LET counted == [acc EXCEPT !.vehicles = @ + 1,
                                    !.boxes = Append(@, box)]
         IN  IF prev = NoFrame THEN counted
             ELSE IF AbsdiffRaises(frame, prev)
                  THEN [counted EXCEPT !.raised = TRUE]
                  ELSE IF MotionScore(frame, prev) > MOTION_FLOOR
                       THEN [counted EXCEPT
                               !.score = @ + box.confidence * MotionScore(frame, prev)]
                       ELSE counted

RECURSIVE BoxLoop(_, _, _, _, _)
BoxLoop(acc, boxes, i, frame, prev) ==
    IF i > Len(boxes) THEN acc
    ELSE BoxLoop(BoxStep(acc, boxes[i], frame, prev), boxes, i + 1, frame, prev)

\* if accident_score > self.accident_threshold and vehicles_detected > 0
RawCondition(score, vehicles, threshold) ==
    score > threshold * 100 /\ vehicles > 0

\* A level-triggered variant: returns True on every call whose raw condition
\* holds.
EdgeTriggerLevel(det, acc) ==
    IF RawCondition(acc.score, acc.vehicles, det.accident_threshold)
    THEN [det |-> [det EXCEPT !.accident_detected = TRUE],
          ret |-> Outcome(TRUE, acc.score, acc.vehicles, acc.boxes)]
    ELSE [det |-> [det EXCEPT !.accident_detected = FALSE],
          ret |-> Outcome(FALSE, acc.score, acc.vehicles, acc.boxes)]

\* A variant without the else branch of line 333: the flag is never cleared.
EdgeTriggerSticky(det, acc) ==
    IF RawCondition(acc.score, acc.vehicles, det.accident_threshold)
       /\ ~det.accident_detected
    THEN [det |-> [det EXCEPT !.accident_detected = TRUE],
          ret |-> Outcome(TRUE, acc.score, acc.vehicles, acc.boxes)]
    ELSE [det |-> det,
          ret |-> Outcome(FALSE, acc.score, acc.vehicles, acc.boxes)]

\* Lines 329-336: the edge trigger on the detector whose frame is stored.
EdgeTrigger(det, acc) ==
    IF RawCondition(acc.score, acc.vehicles, det.accident_threshold)
    THEN IF ~det.accident_detected
         THEN [det |-> [det EXCEPT !.accident_detected = TRUE],
               ret |-> Outcome(TRUE, acc.score, acc.vehicles, acc.boxes)]
         ELSE [det |-> det,
               ret |-> Outcome(FALSE, acc.score, acc.vehicles, acc.boxes)]
    ELSE [det |-> [det EXCEPT !.accident_detected = FALSE],
          ret |-> Outcome(FALSE, acc.score, acc.vehicles, acc.boxes)]

\* The model-backed path of detect_accident.  model(rgb_frame) returns one
\* Results object for the one frame it is given, so the outer loop runs once.
\* inferOK = FALSE: cvtColor or the model raised.
Accumulate(det, frame, boxes) ==
    BoxLoop([score |-> 0, vehicles |-> 0, boxes |-> << >>, raised |-> FALSE],
            boxes, 1, frame, det.previous_frame)

ModelDetect(det, frame, boxes, inferOK) ==
    IF ~inferOK THEN [det |-> det, ret |-> FailedOutcome]
    ELSE LET acc == Accumulate(det, frame, boxes)
         IN  IF acc.raised THEN [det |-> det, ret |-> FailedOutcome]
             ELSE EdgeTrigger([det EXCEPT !.previous_frame = frame], acc)

\* The mock path of detect_accident (lines 272-278).
MockDetect(det, score, vehicles) ==
    [det |-> det,
     ret |-> Outcome(score > det.accident_threshold * 100 /\ vehicles > 0,
                     score, vehicles, << >>)]

\* A variant of line 499 that stores the override as given.
ClampNone(threshold) == threshold

\* detector.accident_threshold = max(0.1, min(1.0, threshold))
Clamp(threshold) == Max(THRESHOLD_MIN, Min(THRESHOLD_MAX, threshold))

\* Lines 496-501: the per-request threshold override.
\* A variant of the override that starts the edge trigger afresh.
ApplyThresholdResetting(det, ov) ==
    IF ov.kind = "num"
    THEN [det EXCEPT !.accident_threshold = Max(THRESHOLD_MIN, Min(THRESHOLD_MAX, ov.val)),
                     !.accident_detected = FALSE]
    ELSE det

\* float() raising is swallowed by the inner except; for NaN every comparison
\* is false, so min(1.0, nan) is 1.0 and max(0.1, 1.0) is 1.0.
ApplyThreshold(det, ov) ==
    IF ov.kind = "num" THEN [det EXCEPT !.accident_threshold = Clamp(ov.val)]
    ELSE IF ov.kind = "nan" THEN [det EXCEPT !.accident_threshold = THRESHOLD_MAX]
    ELSE det

(***************************************************************************)
(* The cooldown gate                                                       *)
(***************************************************************************)
\* A variant of the gate that opens again after half the cooldown.
GatePassesEarly(now, last) == (now - last) * 2 >= ALERT_COOLDOWN_SECONDS

\* if now - last_alert_time >= ALERT_COOLDOWN_SECONDS
GatePasses(now, last) == now - last >= ALERT_COOLDOWN_SECONDS

(***************************************************************************)
(* send_alert and its sinks                                                *)
(***************************************************************************)
\* get_location_info: the geocoder's address, or the literal "Lat: .., Lng: .."
\* when location services are unavailable or the lookup fails.
GetLocationInfo(coords, geoOK) ==
    [kind |-> IF geoOK THEN "address" ELSE "literal", at |-> coords]

\* The geocoder knows an address for the default location only.
Geocodes(coords) == coords = [lat |-> 28, lng |-> 77]

\* The accident_data dictionary the route builds (lines 564-569).  form says
\* whether a caller's dictionary is complete: "missing_field" lacks a top-level
\* key, "bad_nested" has all four keys but coordinates without lat / lng.
AccidentData(form, coords, geoOK, confidence, vehicles) ==
    [form |-> form, location |-> GetLocationInfo(coords, geoOK),
     coordinates |-> coords, confidence |-> confidence,
     vehicles_detected |-> vehicles]

DataForms == {"ok", "missing_field", "bad_nested"}

\* accident_record (lines 360-367); the timestamp is datetime.now().
AccidentRecord(data, now) ==
    [timestamp |-> now, location |-> data.location,
     coordinates |-> data.coordinates, confidence |-> data.confidence,
     vehicles_detected |-> data.vehicles_detected, status |-> "alert_sent"]

\* Which sub-operations fail in one call: the MongoDB insert, the SMS to each
\* contact of the set, the Firestore add, the SMTP session.
FailureSets == [primary : BOOLEAN, sms : SUBSET emergency_contacts,
                mirror : BOOLEAN, email : BOOLEAN]
NoFailure == [primary |-> FALSE, sms |-> {}, mirror |-> FALSE, email |-> FALSE]

\* if not (SMTP_HOST and SMTP_PORT and SMTP_USER and SMTP_PASSWORD and ALERT_EMAILS)
SmtpConfigured(s) == s.host /\ s.port /\ s.user /\ s.password /\ s.emails

\* The progress of one send_alert call: what was attempted, what failed, the
\* stores as written, and exc = an exception is propagating to line 420.
AlertStart(coll, db, fs) ==
    [exc |-> FALSE, primary |-> "none", stored |-> FALSE,
     sms_attempted |-> {}, sms_failed |-> {},
     mirror_attempted |-> FALSE, mirror_failed |-> FALSE,
     email_called |-> FALSE, email_attempted |-> FALSE, email_failed |-> FALSE,
     accidents_collection |-> coll, accidents_db |-> db, firestore_docs |-> fs]

\* Lines 360-367: building the record reads the four keys of accident_data.
StageRecord(s, data) ==
    IF data.form = "missing_field" THEN [s EXCEPT !.exc = TRUE] ELSE s

\* A variant of the primary write that also appends to the in-memory list
\* when MongoDB is selected.
StagePrimaryBoth(s, rec, hasMongo, fails) ==
    IF s.exc THEN s
    ELSE IF hasMongo /\ fails.primary
         THEN [s EXCEPT !.primary = "mongo", !.exc = TRUE]
         ELSE [s EXCEPT !.primary = IF hasMongo THEN "mongo" ELSE "memory",
                        !.stored = TRUE,
                        !.accidents_collection = IF hasMongo THEN Append(@, rec) ELSE @,
                        !.accidents_db = Append(@, rec)]

\* Lines 370-373: the primary store.
StagePrimary(s, rec, hasMongo, fails) ==
    IF s.exc THEN s
    ELSE IF hasMongo
         THEN IF fails.primary
              THEN [s EXCEPT !.primary = "mongo", !.exc = TRUE]
              ELSE [s EXCEPT !.primary = "mongo", !.stored = TRUE,
                             !.accidents_collection = Append(@, rec)]
         ELSE [s EXCEPT !.primary = "memory", !.stored = TRUE,
                        !.accidents_db = Append(@, rec)]

\* A variant of the SMS loop without the inner try / except: the first failing
\* contact (in list order) ends the loop and the exception propagates.
SmsLoopAborting(s, fails) ==
    IF fails.sms = {}
    THEN [s EXCEPT !.sms_attempted = emergency_contacts]
    ELSE LET first == CHOOSE c \in fails.sms : \A d \in fails.sms : c <= d
         IN  [s EXCEPT !.sms_attempted = { c \in emergency_contacts : c <= first },
                       !.sms_failed = {first},
                       !.exc = TRUE]

\* Lines 392-400: one SMS per contact, each in its own try / except.
SmsLoop(s, fails) ==
    [s EXCEPT !.sms_attempted = emergency_contacts,
              !.sms_failed = fails.sms]

\* Lines 376-400: the message is formatted from accident_data, then sent.
StageSms(s, data, hasTwilio, fails) ==
    IF s.exc \/ ~hasTwilio THEN s
    ELSE IF data.form = "bad_nested" THEN [s EXCEPT !.exc = TRUE]
         ELSE SmsLoop(s, fails)

\* Lines 403-404: the Firestore mirror.
StageMirror(s, rec, hasFirestore, fails) ==
    IF s.exc \/ ~hasFirestore THEN s
    ELSE IF fails.mirror
         THEN [s EXCEPT !.mirror_attempted = TRUE, !.mirror_failed = TRUE,
                        !.exc = TRUE]
         ELSE [s EXCEPT !.mirror_attempted = TRUE,
                        !.firestore_docs = Append(@, rec)]

\* A variant of send_email_alert without the configuration test of line 155:
\* the session is opened whatever is configured, and fails when a setting is
\* missing.
SendEmailAlertUnguarded(s, smtpCfg, fails) ==
    [s EXCEPT !.email_called = TRUE, !.email_attempted = TRUE,
              !.email_failed = fails.email \/ ~SmtpConfigured(smtpCfg)]

\* send_email_alert (lines 153-169): returns without an attempt unless SMTP is
\* fully configured; a failing session is caught and reported as False.
SendEmailAlert(s, smtpCfg, fails) ==
    IF ~SmtpConfigured(smtpCfg) THEN [s EXCEPT !.email_called = TRUE]
    ELSE [s EXCEPT !.email_called = TRUE, !.email_attempted = TRUE,
                   !.email_failed = fails.email]

\* Lines 406-415: the body is formatted from accident_data, then mailed.
StageEmail(s, data, smtpCfg, fails) ==
    IF s.exc THEN s
    ELSE IF data.form = "bad_nested" THEN [s EXCEPT !.exc = TRUE]
         ELSE SendEmailAlert(s, smtpCfg, fails)

\* A variant of send_alert without the outer "except Exception".
AlertReturnRaises(s) == IF s.exc THEN "raised" ELSE "True"

\* Lines 418-422: return True, or False from "except Exception".
AlertReturn(s) == IF s.exc THEN "False" ELSE "True"

\* send_alert(accident_data) on the stores (coll, db, fs) at time now.
SendAlert(data, now, coll, db, fs, hasMongo, hasFirestore, hasTwilio, smtpCfg, fails) ==
    LET rec == AccidentRecord(data, now)
        s1 == StageRecord(AlertStart(coll, db, fs), data)
        s2 == StagePrimary(s1, rec, hasMongo, fails)
        s3 == StageSms(s2, data, hasTwilio, fails)
        s4 == StageMirror(s3, rec, hasFirestore, fails)
        s5 == StageEmail(s4, data, smtpCfg, fails)
    IN  [ret |-> AlertReturn(s5), log |-> s5, fails |-> fails, form |-> data.form]

\* dispatch before any send_alert call of the current request.
NoDispatch ==
    [called |-> FALSE, ret |-> "none", log |-> AlertStart(<< >>, << >>, << >>),
     fails |-> NoFailure, form |-> "ok"]

\* The failures that can occur at all: only a configured sink can fail.
PossibleFailures(hasMongo, hasFirestore, hasTwilio, smtpCfg) ==
    { f \in FailureSets :
        /\ f.primary => hasMongo
        /\ f.sms # {} => hasTwilio
        /\ f.mirror => hasFirestore
        /\ f.email => SmtpConfigured(smtpCfg) }

(***************************************************************************)
(* Initial state: the module after import                                  *)
(***************************************************************************)
\* (COMPUTER_VISION_AVAILABLE, YOLO_AVAILABLE, model loaded): the model can
\* load only when both imports succeeded (lines 112-120).
ModeConfigs == { <<TRUE, TRUE, TRUE>>, <<TRUE, TRUE, FALSE>>,
                 <<TRUE, FALSE, FALSE>>, <<FALSE, TRUE, FALSE>>,
                 <<FALSE, FALSE, FALSE>> }

SmtpAll(b) == [host |-> b, port |-> b, user |-> b, password |-> b, emails |-> b]
\* Everything set, nothing set, or exactly one setting missing.
SmtpConfigs == { SmtpAll(TRUE), SmtpAll(FALSE) }
               \cup { [SmtpAll(TRUE) EXCEPT ![k] = FALSE] :
                        k \in {"host", "port", "user", "password", "emails"} }

\* Every configuration of the sinks.
SinkConfigs == BOOLEAN \X BOOLEAN \X BOOLEAN \X SmtpConfigs
NoSinks == << FALSE, FALSE, FALSE, SmtpAll(FALSE) >>
AllSinks == << TRUE, TRUE, TRUE, SmtpAll(TRUE) >>
ModelLoaded == << TRUE, TRUE, TRUE >>

\* seed_sample_data: two sample records (coordinates in whole degrees, the
\* timestamp of import), written to Firestore if configured, else to MongoDB,
\* else to the in-memory list; the stores start empty.
SampleAccidents ==
    << [timestamp |-> 0, location |-> [kind |-> "address", at |-> [lat |-> 28, lng |-> 77]],
        coordinates |-> [lat |-> 28, lng |-> 77], confidence |-> 8200,
        vehicles_detected |-> 2, status |-> "alert_sent"],
       [timestamp |-> 0, location |-> [kind |-> "address", at |-> [lat |-> 28, lng |-> 77]],
        coordinates |-> [lat |-> 28, lng |-> 77], confidence |-> 6700,
        vehicles_detected |-> 1, status |-> "alert_sent"] >>

NoResponse ==
    [kind |-> "none", accident_detected |-> FALSE, confidence |-> 0,
     vehicles_detected |-> 0, boxes |-> << >>, demo_mode |-> FALSE,
     alert_sent |-> "absent", alert_suppressed |-> "absent", error |-> "none"]

\* No /accidents request has been answered.
NoHistory == [kind |-> "none", accidents |-> << >>]

\* The locals of a request between its steps.
NoLocals == [outcome |-> FailedOutcome, demo_mode |-> FALSE, now |-> 0]

\* The state after import in one of the configurations cfgs, each a pair of
\* a mode (of ModeConfigs) and a sink configuration (of SinkConfigs).
InitIn(cfgs) ==
    /\ \E c \in cfgs :
         /\ COMPUTER_VISION_AVAILABLE = c[1][1]
         /\ YOLO_AVAILABLE = c[1][2]
         /\ model = c[1][3]
         /\ mongo = c[2][1]
         /\ firestore = c[2][2]
         /\ twilio_client = c[2][3]
         /\ smtp = c[2][4]
    /\ clock = 0
    /\ last_alert_time = 0
    /\ detector = NewDetector
    /\ current_location = [lat |-> 28, lng |-> 77]
    /\ firestore_docs = IF firestore THEN SampleAccidents ELSE << >>
    /\ accidents_collection = IF ~firestore /\ mongo THEN SampleAccidents ELSE << >>
    /\ accidents_db = IF ~firestore /\ ~mongo THEN SampleAccidents ELSE << >>
    /\ pc = [t \in Threads |-> "idle"]
    /\ loc = [t \in Threads |-> NoLocals]
    /\ resp = [t \in Threads |-> NoResponse]
    /\ passLog = << >>
    /\ suppressed = {}
    /\ evalLog = << >>
    /\ dispatch = NoDispatch
    /\ history = NoHistory

(***************************************************************************)
(* The /detect route                                                       *)
(***************************************************************************)
ErrorResponse(why) == [NoResponse EXCEPT !.kind = "error", !.error = why]

\* result = {...} (lines 513-520, 551-557)
OkResponse(out, demo) ==
    [NoResponse EXCEPT !.kind = "ok", !.accident_detected = out.is_accident,
                       !.confidence = out.accident_score,
                       !.vehicles_detected = out.vehicles_detected,
                       !.boxes = out.boxes, !.demo_mode = demo]

\* The responses of the three ways through lines 559-577.
NoAccidentResponse(out, demo) ==
    [OkResponse(out, demo) EXCEPT !.alert_suppressed = "false"]
SuppressedResponse(out, demo) ==
    [OkResponse(out, demo) EXCEPT !.alert_sent = "false", !.alert_suppressed = "true"]
\* A value that escaped send_alert as an exception would be caught at line 581.
AlertResponse(out, demo, ret) ==
    IF ret = "raised" THEN ErrorResponse("exception")
    ELSE [OkResponse(out, demo) EXCEPT !.alert_sent = "true",
                                       !.alert_suppressed = "false"]

\* The history keeps the last call in full and, of the call before it, what
\* it found and whether it returned True.
Brief(e) == [e EXCEPT !.ret = [is_accident |-> e.ret.is_accident]]
Remember(log, e) ==
    IF log = << >> THEN << e >> ELSE << Brief(log[Len(log)]), e >>

\* Lines 564-572: accident_data, send_alert, and the response, at time now.
Dispatch(t, out, demo, now, failures) ==
    \E fails \in failures :
       LET data == AccidentData("ok", current_location, Geocodes(current_location),
                                out.accident_score, out.vehicles_detected)
           a == SendAlert(data, now, accidents_collection, accidents_db,
                          firestore_docs, mongo, firestore, twilio_client, smtp, fails)
       IN  /\ accidents_collection' = a.log.accidents_collection
           /\ accidents_db' = a.log.accidents_db
           /\ firestore_docs' = a.log.firestore_docs
           /\ dispatch' = [called |-> TRUE, ret |-> a.ret, log |-> a.log,
                           fails |-> fails, form |-> "ok"]
           /\ resp' = [resp EXCEPT ![t] = AlertResponse(out, demo, a.ret)]

\* A variant of the passing branch that puts last_alert_time back when
\* send_alert returns False, so that the next accident is dispatched again.
LastAlertTimeRestored(now, last, ret) == IF ret = "False" THEN last ELSE now

\* last_alert_time after the passing branch (lines 563-572): it is set to
\* 'now' before send_alert is called, and send_alert's return value ret is
\* not looked at.
LastAlertTimeAfter(now, last, ret) == now

\* Lines 559-579 (and 522-541): the gate and the dispatch for outcome out.
GateAndAlert(t, out, demo, failures) ==
    IF ~out.is_accident
    THEN /\ resp' = [resp EXCEPT ![t] = NoAccidentResponse(out, demo)]
         /\ dispatch' = NoDispatch
         /\ UNCHANGED << clock, last_alert_time, accidents_collection,
                         accidents_db, firestore_docs, passLog, suppressed >>
    ELSE \E d \in ClockSteps :
           LET now == clock + d IN
           /\ now <= MaxClock
           /\ clock' = now
           /\ IF GatePasses(now, last_alert_time)
              THEN /\ passLog' = Append(passLog, now)
                   /\ suppressed' = {}
                   /\ Dispatch(t, out, demo, now, failures)
                   /\ last_alert_time' =
                         LastAlertTimeAfter(now, last_alert_time, dispatch'.ret)
              ELSE /\ resp' = [resp EXCEPT ![t] = SuppressedResponse(out, demo)]
                   /\ suppressed' = suppressed \cup {now}
                   /\ dispatch' = NoDispatch
                   /\ UNCHANGED << last_alert_time, accidents_collection,
                                   accidents_db, firestore_docs, passLog >>

\* The request ends with an error response and no further effect.
Fail(t, why) ==
    /\ resp' = [resp EXCEPT ![t] = ErrorResponse(why)]
    /\ dispatch' = NoDispatch
    /\ UNCHANGED << clock, last_alert_time, accidents_collection, accidents_db,
                    firestore_docs, passLog, suppressed >>

\* Lines 493-557, for every request the inputs allow: the detector after the
\* threshold override and the detection, and either the error the request
\* ends with or the outcome (is_accident, confidence, vehicles, boxes) and
\* whether the result carries demo_mode.
RouteResult(det, kind, why, out, demo) ==
    [det |-> det, kind |-> kind, why |-> why, out |-> out, demo |-> demo]

RouteOutcomes(overrides, images, boxlists) ==
    UNION { LET det == ApplyThreshold(detector, ov) IN
            \* if not image_data: return jsonify({'error': ...})
            { RouteResult(det, "error", "no_image", FailedOutcome, FALSE) }
            \cup
            IF ~COMPUTER_VISION_AVAILABLE \/ ~YOLO_AVAILABLE
            THEN \* the demo branch of the route (lines 506-520)
                 { RouteResult(det, "outcome", "none", Outcome(a, r[1], r[2], << >>), TRUE) :
                     a \in BOOLEAN, r \in DemoDraws }
            ELSE \* lines 544-549: decode, then detector.detect_accident(frame)
                 { RouteResult(det, "error", "exception", FailedOutcome, FALSE) :
                     img \in { i \in images : i.kind = "undecodable" } }
                 \cup
                 IF ~model
                 THEN { LET r == MockDetect(det, m[1], m[2]) IN
                        RouteResult(r.det, "outcome", "none", r.ret, FALSE) :
                          m \in MockDraws }
                 ELSE { LET r == ModelDetect(det, x[1].frame, x[2], x[3]) IN
                        RouteResult(r.det, "outcome", "none", r.ret, FALSE) :
                          x \in { i \in images : i.kind = "frame" } \X boxlists \X BOOLEAN }
          : ov \in overrides }

\* The handler of /detect from start to end in one step.
DetectRequest(t, images, boxlists, failures) ==
    /\ \A u \in Threads : pc[u] = "idle"
    /\ \E r \in RouteOutcomes(Overrides, images, boxlists) :
         /\ detector' = r.det
         /\ IF r.kind = "error" THEN Fail(t, r.why)
            ELSE GateAndAlert(t, r.out, r.demo, failures)
    /\ UNCHANGED << config, current_location, pc, loc, evalLog, history >>

\* The /update_location route.
UpdateLocation ==
    /\ \E c \in Coordinates : current_location' = c
    /\ UNCHANGED << config, clock, last_alert_time, detector, accidents_collection,
                    accidents_db, firestore_docs, pc, loc, resp, passLog,
                    suppressed, evalLog, dispatch, history >>

(***************************************************************************)
(* Spec: the system, requests handled one after another.                   *)
(***************************************************************************)
\* The configurations explored at system level: every mode, and for the
\* model-backed and the library-less mode also the other sink configurations.
SystemConfigs ==
    (ModeConfigs \X {NoSinks})
    \cup ({ModelLoaded, <<FALSE, FALSE, FALSE>>}
          \X {AllSinks, << TRUE, FALSE, FALSE, SmtpAll(FALSE) >>})
    \cup {<< ModelLoaded, << FALSE, TRUE, FALSE, SmtpAll(FALSE) >> >>}

\* The inputs explored at system level: two frames of one shape, no box or
\* one vehicle box, and at most one failing sub-operation per dispatch.
SystemImages == { i \in Images : i.frame.shape <= 1 /\ i.frame.lum # 15 }
SystemBoxLists == { << >>, << Box(2, 90) >> }
SingleFailures ==
    { f \in PossibleFailures(mongo, firestore, twilio_client, smtp) :
        Cardinality({ k \in {"primary", "mirror", "email"} : f[k] })
          + Cardinality(f.sms) <= 1 }

Init == InitIn(SystemConfigs)

Detect == DetectRequest(1, SystemImages, SystemBoxLists, SingleFailures)

Next == Detect

Spec == Init /\ [][Next]_vars

(***************************************************************************)
(* DetectorSpec: detector.detect_accident called frame after frame.        *)
(***************************************************************************)
DetectorInit == InitIn({<< ModelLoaded, NoSinks >>})

\* What one detect_accident call leaves in the history: whether it raised
\* internally, raw_condition as line 329 evaluates it, accident_detected
\* and the threshold before the call, and the returned tuple.
EvalEntry(det, frame, boxes, inferOK) ==
    LET acc == Accumulate(det, frame, boxes) IN
    [failed |-> ~inferOK \/ acc.raised,
     raw |-> RawCondition(acc.score, acc.vehicles, det.accident_threshold),
     before |-> det.accident_detected,
     threshold |-> det.accident_threshold,
     ret |-> ModelDetect(det, frame, boxes, inferOK).ret]

\* detector.detect_accident(frame) on the loaded model.
Evaluate ==
    /\ \E f \in Frames, inferOK \in BOOLEAN :
         \E boxes \in IF inferOK THEN BoxLists ELSE {<< >>} :
            /\ detector' = ModelDetect(detector, f, boxes, inferOK).det
            /\ evalLog' = Remember(evalLog, EvalEntry(detector, f, boxes, inferOK))
    /\ UNCHANGED << config, clock, last_alert_time, current_location,
                    accidents_collection, accidents_db, firestore_docs, pc, loc,
                    resp, passLog, suppressed, dispatch, history >>

\* A request that carries a threshold override (lines 496-501) between two
\* evaluations.
SetThreshold ==
    /\ \E ov \in Overrides \cup OtherOverrides :
         detector' = ApplyThreshold(detector, ov)
    /\ UNCHANGED << config, clock, last_alert_time, current_location,
                    accidents_collection, accidents_db, firestore_docs, pc, loc,
                    resp, passLog, suppressed, evalLog, dispatch, history >>

DetectorNext == Evaluate \/ SetThreshold

DetectorSpec == DetectorInit /\ [][DetectorNext]_vars

(***************************************************************************)
(* DispatchSpec: send_alert called directly.                               *)
(***************************************************************************)
DispatchInit == InitIn({ModelLoaded} \X SinkConfigs)

\* The records a store holds beyond the seeded samples.
Added(store) ==
    IF Len(store) >= 2 /\ SubSeq(store, 1, 2) = SampleAccidents
    THEN SubSeq(store, 3, Len(store)) ELSE store

\* send_alert(accident_data) for any dictionary a caller may pass.
SendAlertCall ==
    /\ Len(Added(accidents_collection)) + Len(Added(accidents_db)) < MaxDispatched
    /\ \E form \in DataForms,
          fails \in PossibleFailures(mongo, firestore, twilio_client, smtp) :
         LET data == AccidentData(form, current_location, Geocodes(current_location),
                                  5400, 1)
             a == SendAlert(data, clock, accidents_collection, accidents_db,
                            firestore_docs, mongo, firestore, twilio_client, smtp, fails)
         IN  /\ accidents_collection' = a.log.accidents_collection
             /\ accidents_db' = a.log.accidents_db
             /\ firestore_docs' = a.log.firestore_docs
             /\ dispatch' = [called |-> TRUE, ret |-> a.ret, log |-> a.log,
                             fails |-> fails, form |-> form]
    /\ UNCHANGED << config, clock, last_alert_time, detector, current_location,
                    pc, loc, resp, passLog, suppressed, evalLog, history >>

DispatchNext == SendAlertCall \/ UpdateLocation

DispatchSpec == DispatchInit /\ [][DispatchNext]_vars

(***************************************************************************)
(* ConcSpec: two /detect requests handled by concurrent threads.           *)
(***************************************************************************)
ConcInit == InitIn({ << ModelLoaded, NoSinks >> })

\* Seconds that pass before a thread reads the clock.
ConcClockSteps == {0, 20}

\* Lines 493-557 of one request, up to the test "if is_accident".
Begin(t) ==
    /\ pc[t] = "idle"
    /\ \E r \in RouteOutcomes({[kind |-> "none", val |-> 0]}, SystemImages, SystemBoxLists) :
         /\ detector' = r.det
         /\ IF r.kind = "error"
            THEN /\ resp' = [resp EXCEPT ![t] = ErrorResponse(r.why)]
                 /\ UNCHANGED << pc, loc >>
            ELSE IF ~r.out.is_accident
            THEN /\ resp' = [resp EXCEPT ![t] = NoAccidentResponse(r.out, r.demo)]
                 /\ UNCHANGED << pc, loc >>
            ELSE /\ resp' = [resp EXCEPT ![t] = NoResponse]
                 /\ pc' = [pc EXCEPT ![t] = "gate"]
                 /\ loc' = [loc EXCEPT ![t] = [outcome |-> r.out, demo_mode |-> r.demo,
                                               now |-> 0]]
    /\ UNCHANGED << config, clock, last_alert_time, current_location,
                    accidents_collection, accidents_db, firestore_docs,
                    passLog, suppressed, evalLog, dispatch, history >>

\* Lines 561-562: now = time.time() and the test of the cooldown.
GateCheck(t) ==
    /\ pc[t] = "gate"
    /\ \E d \in ConcClockSteps :
         LET now == clock + d IN
         /\ now <= MaxClock
         /\ clock' = now
         /\ IF GatePasses(now, last_alert_time)
            THEN /\ pc' = [pc EXCEPT ![t] = "set"]
                 /\ loc' = [loc EXCEPT ![t].now = now]
                 /\ passLog' = Append(passLog, now)
                 /\ suppressed' = {}
                 /\ UNCHANGED resp
            ELSE /\ pc' = [pc EXCEPT ![t] = "idle"]
                 /\ loc' = [loc EXCEPT ![t] = NoLocals]
                 /\ resp' = [resp EXCEPT ![t] =
                               SuppressedResponse(loc[t].outcome, loc[t].demo_mode)]
                 /\ suppressed' = suppressed \cup {now}
                 /\ UNCHANGED passLog
    /\ UNCHANGED << config, last_alert_time, detector, current_location,
                    accidents_collection, accidents_db, firestore_docs,
                    evalLog, dispatch, history >>

\* Line 563: last_alert_time = now.
GateSet(t) ==
    /\ pc[t] = "set"
    /\ last_alert_time' = loc[t].now
    /\ pc' = [pc EXCEPT ![t] = "alert"]
    /\ UNCHANGED << config, clock, detector, current_location,
                    accidents_collection, accidents_db, firestore_docs, loc, resp,
                    passLog, suppressed, evalLog, dispatch, history >>

\* Lines 564-579: send_alert and the response.
SendAlertStep(t) ==
    /\ pc[t] = "alert"
    /\ Dispatch(t, loc[t].outcome, loc[t].demo_mode, loc[t].now, {NoFailure})
    /\ pc' = [pc EXCEPT ![t] = "idle"]
    /\ loc' = [loc EXCEPT ![t] = NoLocals]
    /\ UNCHANGED << config, clock, last_alert_time, detector, current_location,
                    passLog, suppressed, evalLog, history >>

ConcNext == \E t \in Threads : Begin(t) \/ GateCheck(t) \/ GateSet(t) \/ SendAlertStep(t)

ConcSpec == ConcInit /\ [][ConcNext]_vars

\* ConcSpec with the scheduling of the request threads: a thread that can
\* execute its next statement of the route eventually does.  Nothing is
\* assumed about send_alert, whose insert, SMS sends and SMTP session wait
\* for services outside the process.
ConcFairSpec ==
    ConcSpec /\ \A t \in Threads : WF_vars(GateCheck(t)) /\ WF_vars(GateSet(t))

(***************************************************************************)
(* The /accidents route and HistorySpec: alerts recorded, history queried. *)
(***************************************************************************)
\* A variant of the sort step for sort('timestamp', 1) / reverse=False: x goes
\* behind the records with a smaller or equal timestamp.
InsertAsc(sorted, x, ties) ==
    LET ahead == { i \in 1..Len(sorted) : sorted[i].timestamp <= x.timestamp }
        p == Cardinality(ahead)
    IN  SubSeq(sorted, 1, p) \o << x >> \o SubSeq(sorted, p + 1, Len(sorted))

\* One step of a descending sort by 'timestamp': x goes behind the records
\* with a greater timestamp and, for ties = "natural", behind those with an
\* equal one (a stable sort); for ties = "reverse" it goes before its equals.
\* Timestamps are isoformat strings of one format, which compare as the
\* instants they denote; the model compares the seconds.
InsertDesc(sorted, x, ties) ==
    LET ahead == { i \in 1..Len(sorted) :
                     \/ sorted[i].timestamp > x.timestamp
                     \/ sorted[i].timestamp = x.timestamp /\ ties = "natural" }
        p == Cardinality(ahead)
    IN  SubSeq(sorted, 1, p) \o << x >> \o SubSeq(sorted, p + 1, Len(sorted))

\* The first n records of store sorted by timestamp, newest first.
RECURSIVE SortDesc(_, _, _)
SortDesc(store, n, ties) ==
    IF n = 0 THEN << >>
    ELSE InsertDesc(SortDesc(store, n - 1, ties), store[n], ties)

\* [:50] and .limit(50)
Limit(q, n) == SubSeq(q, 1, Min(n, Len(q)))

\* sorted(accidents_db, key=lambda x: x['timestamp'], reverse=True)[:50]:
\* Python's sort is stable, also with reverse=True.
MemoryQuery(db) == Limit(SortDesc(db, Len(db), "natural"), HISTORY_LIMIT)

\* accidents_collection.find({}, {'_id': 0}).sort('timestamp', -1).limit(50):
\* MongoDB does not fix the order of documents with equal sort keys.
TieOrders == {"natural", "reverse"}
MongoQuery(coll, ties) == Limit(SortDesc(coll, Len(coll), ties), HISTORY_LIMIT)

\* A variant of get_accidents that always reads the in-memory list.
GetAccidentsResultFromList(hasMongo, coll, db, ties, queryOK) ==
    [kind |-> "ok", accidents |-> MemoryQuery(db)]

\* get_accidents (lines 597-606); queryOK = FALSE: the MongoDB query raised.
GetAccidentsResult(hasMongo, coll, db, ties, queryOK) ==
    IF hasMongo
    THEN IF queryOK THEN [kind |-> "ok", accidents |-> MongoQuery(coll, ties)]
         ELSE [kind |-> "error", accidents |-> << >>]
    ELSE [kind |-> "ok", accidents |-> MemoryQuery(db)]

\* The /accidents route.
GetAccidents ==
    /\ \E ties \in TieOrders, queryOK \in BOOLEAN :
         /\ ~queryOK => mongo
         /\ history' = GetAccidentsResult(mongo, accidents_collection, accidents_db,
                                          ties, queryOK)
    /\ UNCHANGED << config, clock, last_alert_time, detector, current_location,
                    accidents_collection, accidents_db, firestore_docs, pc, loc,
                    resp, passLog, suppressed, evalLog, dispatch >>

\* The seconds at which HistorySpec records alerts.
HistoryStamps == {0, 1}

\* send_alert(accident_data) at a later read of the clock, one of stamps, no
\* sub-operation failing; the response of an earlier /accidents request is
\* dropped.
RecordAlertAt(stamps) ==
    /\ Len(accidents_collection) + Len(accidents_db) < MaxRecords
    /\ \E now \in stamps :
         /\ now >= clock
         /\ clock' = now
         /\ LET data == AccidentData("ok", current_location, Geocodes(current_location),
                                     5400, 1)
                a == SendAlert(data, now, accidents_collection, accidents_db,
                               firestore_docs, mongo, firestore, twilio_client, smtp,
                               NoFailure)
            IN  /\ accidents_collection' = a.log.accidents_collection
                /\ accidents_db' = a.log.accidents_db
                /\ firestore_docs' = a.log.firestore_docs
                /\ dispatch' = [called |-> TRUE, ret |-> a.ret, log |-> a.log,
                                fails |-> NoFailure, form |-> "ok"]
    /\ history' = NoHistory
    /\ UNCHANGED << config, last_alert_time, detector, current_location, pc, loc,
                    resp, passLog, suppressed, evalLog >>

RecordAlert == RecordAlertAt(HistoryStamps)

HistoryInit ==
    InitIn({ << ModelLoaded, NoSinks >>,
             << ModelLoaded, << TRUE, FALSE, FALSE, SmtpAll(FALSE) >> >> })

HistoryNext == RecordAlert \/ GetAccidents

HistorySpec == HistoryInit /\ [][HistoryNext]_vars

(***************************************************************************)
(* ReadbackSpec: alerts recorded one second after another while the        *)
(* location is updated, and the history queried.                           *)
(***************************************************************************)
ReadbackInit == HistoryInit

\* send_alert one second after the last read of the clock.
RecordNextAlert == RecordAlertAt({clock + 1})

\* /update_location while the primary store is short.
UpdateLocationEarly ==
    /\ Len(accidents_collection) + Len(accidents_db) < MaxMovedRecords
    /\ UpdateLocation

ReadbackNext == RecordNextAlert \/ UpdateLocationEarly \/ GetAccidents

ReadbackSpec == ReadbackInit /\ [][ReadbackNext]_vars

(***************************************************************************)
(* RunSpec: /detect requests of the model-backed mode with time passing    *)
(* between them.                                                           *)
(***************************************************************************)
RunInit == InitIn({ << ModelLoaded, NoSinks >> })

\* A /detect request with a frame of the camera; no sink is configured.
DetectFrame == DetectRequest(1, SystemImages, SystemBoxLists, {NoFailure})

\* Seconds pass between two requests (time.time() is next read at line 561);
\* the response of the earlier request has been delivered.
TimePasses ==
    /\ \E d \in ClockSteps \ {0} :
         /\ clock + d <= MaxClock
         /\ clock' = clock + d
    /\ resp' = [t \in Threads |-> NoResponse]
    /\ UNCHANGED << config, last_alert_time, detector, current_location,
                    accidents_collection, accidents_db, firestore_docs, pc, loc,
                    passLog, suppressed, evalLog, dispatch, history >>

RunNext == DetectFrame \/ TimePasses

RunSpec == RunInit /\ [][RunNext]_vars

(***************************************************************************)
(* FrameSpec: detect_accident called frame after frame, each call logged    *)
(* with the frame and the boxes it was given.                               *)
(***************************************************************************)
FrameInit == InitIn({ << ModelLoaded, NoSinks >> })

\* The box lists YOLO reports in FrameSpec: none, one box of each kind, two
\* and three vehicles, and vehicles next to a person.
FrameBoxLists ==
    { << >>, << Box(2, 90) >>, << Box(2, 30) >>, << Box(0, 90) >>,
      << Box(2, 90), Box(7, 31) >>,
      << Box(7, 31), Box(0, 90), Box(2, 90) >>,
      << Box(2, 90), Box(2, 90), Box(7, 31) >> }

\* What one call leaves in the history: the frame and boxes it was given,
\* whether inference succeeded, previous_frame, threshold and
\* accident_detected before the call, whether the loop raised (cv2.absdiff),
\* whether it is given what the call before it was given, and the result.
FrameEntry(det, frame, boxes, inferOK, log) ==
    LET acc == Accumulate(det, frame, boxes) IN
    [frame |-> frame, boxes |-> boxes, inferOK |-> inferOK,
     prev |-> det.previous_frame,
     threshold |-> det.accident_threshold,
     before |-> det.accident_detected,
     raised |-> inferOK /\ acc.raised,
     failed |-> ~inferOK \/ acc.raised,
     raw |-> RawCondition(acc.score, acc.vehicles, det.accident_threshold),
     repeats |-> /\ log # << >>
                 /\ log[Len(log)].frame = frame
                 /\ log[Len(log)].boxes = boxes,
     ret |-> ModelDetect(det, frame, boxes, inferOK).ret]

\* Of the call before the last the history keeps the frame and how it ended.
FrameBrief(e) == [frame |-> e.frame, failed |-> e.failed, raised |-> e.raised]

\* detector.detect_accident(frame) on the loaded model.
EvaluateFrame ==
    /\ \E f \in Frames, inferOK \in BOOLEAN :
         \E boxes \in IF inferOK THEN FrameBoxLists ELSE {<< >>} :
            /\ detector' = ModelDetect(detector, f, boxes, inferOK).det
            /\ evalLog' = (IF evalLog = << >> THEN << >>
                           ELSE << FrameBrief(evalLog[Len(evalLog)]) >>)
                          \o << FrameEntry(detector, f, boxes, inferOK, evalLog) >>
    /\ UNCHANGED << config, clock, last_alert_time, current_location,
                    accidents_collection, accidents_db, firestore_docs, pc, loc,
                    resp, passLog, suppressed, dispatch, history >>

FrameNext == EvaluateFrame \/ SetThreshold

FrameSpec == FrameInit /\ [][FrameNext]_vars

(***************************************************************************)
(* RaceSpec: detector.detect_accident called by two request threads at     *)
(* once (line 549; the development server handles requests in threads and  *)
(* the detector has no lock).  A call is split where another thread can    *)
(* run: per box of the loop, at line 326, at lines 329-330, at line 331.   *)
(***************************************************************************)
RaceInit == InitIn({ << ModelLoaded, NoSinks >> })

\* The frames and box lists the two threads submit.
RaceFrames == { f \in Frames : f.shape = 1 /\ f.lum # 15 }
RaceBoxLists == { << >>, << Box(2, 90) >>, << Box(2, 90), Box(2, 90) >> }

\* The locals of a detect_accident call: the frame, the boxes YOLO reported,
\* the index of the next box, the accumulators, and (history) the values of
\* self.previous_frame the loop has compared with and the one line 326
\* replaced.
CallLocals(frame, boxes) ==
    [frame |-> frame, boxes |-> boxes, i |-> 1,
     acc |-> [score |-> 0, vehicles |-> 0, boxes |-> << >>, raised |-> FALSE],
     seen |-> {}, replaced |-> NoFrame]

\* detect_accident returns ret to line 549.
Return(t, ret) ==
    /\ pc' = [pc EXCEPT ![t] = "idle"]
    /\ loc' = [loc EXCEPT ![t] = [NoLocals EXCEPT !.outcome = ret]]

\* Lines 282-290: the call starts, the model has run on the frame.
CallDetect(t) ==
    /\ pc[t] = "idle"
    /\ \E f \in RaceFrames, boxes \in RaceBoxLists :
         loc' = [loc EXCEPT ![t] = CallLocals(f, boxes)]
    /\ pc' = [pc EXCEPT ![t] = "loop"]
    /\ UNCHANGED << config, clock, last_alert_time, detector, current_location,
                    accidents_collection, accidents_db, firestore_docs, resp,
                    passLog, suppressed, evalLog, dispatch, history >>

\* Lines 295-323 for one box, reading self.previous_frame as it is now.
BoxIteration(t) ==
    /\ pc[t] = "loop"
    /\ loc[t].i <= Len(loc[t].boxes)
    /\ LET box == loc[t].boxes[loc[t].i]
           acc == BoxStep(loc[t].acc, box, loc[t].frame, detector.previous_frame)
       IN  IF acc.raised
           THEN Return(t, FailedOutcome)
           ELSE /\ loc' = [loc EXCEPT ![t].acc = acc, ![t].i = @ + 1,
                                      ![t].seen = IF IsVehicle(box)
                                                  THEN @ \cup {detector.previous_frame}
                                                  ELSE @]
                /\ UNCHANGED pc
    /\ UNCHANGED << config, clock, last_alert_time, detector, current_location,
                    accidents_collection, accidents_db, firestore_docs, resp,
                    passLog, suppressed, evalLog, dispatch, history >>

\* Line 326: self.previous_frame = frame.copy()
StoreFrame(t) ==
    /\ pc[t] = "loop"
    /\ loc[t].i > Len(loc[t].boxes)
    /\ detector' = [detector EXCEPT !.previous_frame = loc[t].frame]
    /\ loc' = [loc EXCEPT ![t].replaced = detector.previous_frame]
    /\ pc' = [pc EXCEPT ![t] = "test"]
    /\ UNCHANGED << config, clock, last_alert_time, current_location,
                    accidents_collection, accidents_db, firestore_docs, resp,
                    passLog, suppressed, evalLog, dispatch, history >>

\* Lines 329-330 and 333-336: the two tests, and the returns of False.
TestCondition(t) ==
    /\ pc[t] = "test"
    /\ LET acc == loc[t].acc
           ret == Outcome(FALSE, acc.score, acc.vehicles, acc.boxes)
       IN  IF RawCondition(acc.score, acc.vehicles, detector.accident_threshold)
           THEN IF ~detector.accident_detected
                THEN /\ pc' = [pc EXCEPT ![t] = "mark"]
                     /\ UNCHANGED << loc, detector >>
                ELSE /\ Return(t, ret)
                     /\ UNCHANGED detector
           ELSE /\ detector' = [detector EXCEPT !.accident_detected = FALSE]
                /\ Return(t, ret)
    /\ UNCHANGED << config, clock, last_alert_time, current_location,
                    accidents_collection, accidents_db, firestore_docs, resp,
                    passLog, suppressed, evalLog, dispatch, history >>

\* Lines 331-332: self.accident_detected = True; return True, ...
MarkDetected(t) ==
    /\ pc[t] = "mark"
    /\ detector' = [detector EXCEPT !.accident_detected = TRUE]
    /\ Return(t, Outcome(TRUE, loc[t].acc.score, loc[t].acc.vehicles, loc[t].acc.boxes))
    /\ UNCHANGED << config, clock, last_alert_time, current_location,
                    accidents_collection, accidents_db, firestore_docs, resp,
                    passLog, suppressed, evalLog, dispatch, history >>

RaceNext ==
    \E t \in Threads : \/ CallDetect(t)
                       \/ BoxIteration(t)
                       \/ StoreFrame(t)
                       \/ TestCondition(t)
                       \/ MarkDetected(t)

RaceSpec == RaceInit /\ [][RaceNext]_vars

(***************************************************************************)
(* Properties of the cooldown gate.                                        *)
(***************************************************************************)
Last(q) == q[Len(q)]

\* C1: in Spec (requests handled one after another, non-decreasing clock) any
\* two requests that pass the cooldown gate have 'now' values at least
\* ALERT_COOLDOWN_SECONDS apart, however many accident requests lie between.
CooldownRespected ==
    \A i, j \in 1..Len(passLog) :
        i < j => passLog[j] - passLog[i] >= ALERT_COOLDOWN_SECONDS

\* C1 witness: two requests passed the gate exactly one cooldown apart, and a
\* further accident request has been suppressed since.
CooldownRespectedWitness ==
    /\ Len(passLog) = 2
    /\ passLog[2] - passLog[1] = ALERT_COOLDOWN_SECONDS
    /\ suppressed # {}
    /\ resp[1].alert_suppressed = "true"

\* C2 (as stated): the check and the set of the gate are one atomic step, so
\* no two concurrent requests are both past the check with 'now' values inside
\* one cooldown window.
GateCheckAndSetAtomic ==
    \A t, u \in Threads :
        (t # u /\ pc[t] \in {"set", "alert"} /\ pc[u] \in {"set", "alert"})
            => Abs(loc[t].now - loc[u].now) >= ALERT_COOLDOWN_SECONDS

\* C3 (as stated): last_alert_time is 'now' of the last passing check and is
\* never changed by a suppressed one; with cooldown 20 a check at t = 0 passes,
\* a check is suppressed only inside the window of the last pass (t = 10), and
\* a check outside of it (t = 21) passes.
GateUpdatesIffPasses ==
    /\ last_alert_time = IF passLog = << >> THEN 0 ELSE Last(passLog)
    /\ 0 \in suppressed => passLog # << >>
    /\ \A s \in suppressed :
          passLog # << >> => s - Last(passLog) < ALERT_COOLDOWN_SECONDS

\* C4 (as stated): the first gate check ever made passes for every 'now':
\* nothing is suppressed before the first pass.
FirstCheckPasses == passLog = << >> => suppressed = {}

(***************************************************************************)
(* Properties of AccidentDetector.detect_accident.                         *)
(***************************************************************************)
\* The call completed and line 329 found raw_condition true.
RawAt(e) == ~e.failed /\ e.raw

\* C5 (as stated): detect_accident returns is_accident = true only if
\* raw_condition holds on that call and accident_detected was false before
\* it, and of two consecutive calls that both satisfy raw_condition the first
\* returns true and the second returns false.
EdgeTriggeredFirstTrue ==
    /\ \A i \in 1..Len(evalLog) :
          evalLog[i].ret.is_accident => RawAt(evalLog[i]) /\ ~evalLog[i].before
    /\ (Len(evalLog) = 2 /\ RawAt(evalLog[1]) /\ RawAt(evalLog[2]))
          => evalLog[1].ret.is_accident /\ ~evalLog[2].ret.is_accident

\* C5 (amended): detect_accident returns is_accident = true exactly when the
\* call completes, raw_condition holds on it and accident_detected was false
\* before it; of two consecutive calls that both satisfy raw_condition the
\* second returns false, and the first returns true exactly when
\* accident_detected was false before it.
EdgeTriggered ==
    /\ \A i \in 1..Len(evalLog) :
          evalLog[i].ret.is_accident <=> (RawAt(evalLog[i]) /\ ~evalLog[i].before)
    /\ (Len(evalLog) = 2 /\ RawAt(evalLog[1]) /\ RawAt(evalLog[2]))
          => /\ ~evalLog[2].ret.is_accident
             /\ evalLog[1].ret.is_accident <=> ~evalLog[1].before

\* C5 witness: two consecutive calls satisfy raw_condition; the first returned
\* true and the second false.
EdgeTriggeredWitness ==
    /\ Len(evalLog) = 2
    /\ RawAt(evalLog[1]) /\ RawAt(evalLog[2])
    /\ evalLog[1].ret.is_accident
    /\ ~evalLog[2].ret.is_accident

\* C6 (as stated): accident_detected is true after call n iff raw_condition
\* was true at call n and false, or absent, at call n-1.
FlagIsRisingEdge ==
    /\ Len(evalLog) = 1 /\ ~evalLog[1].failed
          => (detector.accident_detected <=> evalLog[1].raw)
    /\ Len(evalLog) = 2 /\ ~evalLog[1].failed /\ ~evalLog[2].failed
          => (detector.accident_detected <=> (evalLog[2].raw /\ ~evalLog[1].raw))

\* C6 (amended): accident_detected is true after a call that completes iff
\* raw_condition was true at that call, whatever it was at the call before; a
\* call that fails internally leaves accident_detected as it was.
FlagFollowsRaw ==
    evalLog # << >> =>
        IF Last(evalLog).failed
        THEN detector.accident_detected = Last(evalLog).before
        ELSE detector.accident_detected <=> Last(evalLog).raw

\* C6 witness: raw_condition was true at two consecutive calls and
\* accident_detected is true after the second.
FlagFollowsRawWitness ==
    /\ Len(evalLog) = 2
    /\ RawAt(evalLog[1]) /\ RawAt(evalLog[2])
    /\ detector.accident_detected

(***************************************************************************)
(* Properties of send_alert.                                               *)
(***************************************************************************)
\* The primary store as the last send_alert call left it.
PrimaryStore == IF mongo THEN accidents_collection ELSE accidents_db
PrimaryLogged == IF mongo THEN dispatch.log.accidents_collection
                 ELSE dispatch.log.accidents_db

\* C7: send_alert never raises: for every combination of failing
\* sub-operations and every form of accident data it returns True or False,
\* and False exactly when the data is malformed or a store write failed.
SendAlertNeverRaises ==
    dispatch.called =>
        /\ dispatch.ret \in {"True", "False"}
        /\ dispatch.ret = "False" <=>
              (dispatch.form # "ok" \/ dispatch.fails.primary \/ dispatch.fails.mirror)

\* C7 witness: a call whose primary insert raised while an SMS was due to
\* fail as well returned False.
SendAlertNeverRaisesWitness ==
    /\ dispatch.called
    /\ dispatch.fails.primary
    /\ dispatch.fails.sms # {}
    /\ dispatch.ret = "False"

\* C8 (as stated): send_alert does not short-circuit: for well-formed data the
\* primary write, the SMS sends, the mirror write and the email are each
\* attempted whatever else failed, and a failing mirror write leaves the
\* primary write in place.
NoShortCircuit ==
    (dispatch.called /\ dispatch.form = "ok") =>
        /\ dispatch.log.primary # "none"
        /\ twilio_client => dispatch.log.sms_attempted = emergency_contacts
        /\ firestore => dispatch.log.mirror_attempted
        /\ dispatch.log.email_called
        /\ dispatch.log.mirror_failed => dispatch.log.stored

\* C9: when the SMS to a contact fails, every contact has still been
\* attempted, the record is in the primary store, the SMS failure does not
\* propagate, and the email attempt is made (short of a failing mirror write,
\* the only thing after the SMS loop that can end the call early).
SmsFailureContained ==
    (dispatch.called /\ dispatch.log.sms_failed # {}) =>
        /\ dispatch.log.sms_attempted = emergency_contacts
        /\ dispatch.log.stored
        /\ PrimaryStore = PrimaryLogged
        /\ Added(PrimaryStore) # << >>
        /\ Last(PrimaryStore).status = "alert_sent"
        /\ dispatch.log.exc => dispatch.log.mirror_failed
        /\ ~dispatch.log.mirror_failed =>
              /\ dispatch.log.email_called
              /\ SmtpConfigured(smtp) => dispatch.log.email_attempted
              /\ dispatch.ret = "True"

\* C9 witness: the SMS to the first contact failed, the second contact was
\* attempted, the email went out and the record was stored.
SmsFailureContainedWitness ==
    /\ dispatch.called
    /\ dispatch.log.sms_failed = {1}
    /\ 2 \in dispatch.log.sms_attempted
    /\ dispatch.log.email_attempted
    /\ ~dispatch.log.email_failed
    /\ dispatch.log.stored

\* C10 (as stated): the value send_alert returns tells a call with a failed
\* sub-operation from a fully successful one: it is True only when no SMS, no
\* email and no store write failed.
ReturnMarksFailures ==
    (dispatch.called /\ dispatch.ret = "True") =>
        /\ dispatch.log.sms_failed = {}
        /\ ~dispatch.log.email_failed
        /\ ~dispatch.log.mirror_failed
        /\ dispatch.log.stored

\* C11: when SMTP host, port, user, password or the recipient list is not
\* configured, send_email_alert opens no session and fails nothing, and
\* send_alert still does its other sub-operations: for well-formed data and no
\* failing store write the record is stored, the contacts and the mirror are
\* attempted when configured, the email function is called, and the call
\* returns True.
UnconfiguredEmailIsSilent ==
    (dispatch.called /\ ~SmtpConfigured(smtp)) =>
        /\ ~dispatch.log.email_attempted
        /\ ~dispatch.log.email_failed
        /\ (dispatch.form = "ok" /\ ~dispatch.fails.primary /\ ~dispatch.fails.mirror)
              => /\ dispatch.log.stored
                 /\ twilio_client => dispatch.log.sms_attempted = emergency_contacts
                 /\ firestore => dispatch.log.mirror_attempted
                 /\ dispatch.log.email_called
                 /\ ~dispatch.log.exc
                 /\ dispatch.ret = "True"

\* C11 witness: host, port, user and password are set but the recipient list
\* is empty; send_alert texted the contacts, wrote the mirror, called
\* send_email_alert, which attempted nothing, and returned True.
UnconfiguredEmailIsSilentWitness ==
    /\ dispatch.called
    /\ smtp.host /\ smtp.port /\ smtp.user /\ smtp.password /\ ~smtp.emails
    /\ dispatch.log.sms_attempted = emergency_contacts
    /\ dispatch.log.mirror_attempted
    /\ dispatch.log.email_called
    /\ ~dispatch.log.email_attempted
    /\ dispatch.ret = "True"

(***************************************************************************)
(* Properties of the record stores.                                        *)
(***************************************************************************)
\* The records send_alert has added to the two primary stores.
NonSeedRecords == Len(Added(accidents_collection)) + Len(Added(accidents_db))

\* What one request does to the primary stores: a request that passes the
\* gate appends exactly one record, stamped with its 'now', to the store
\* selected at import and leaves the other store alone (or, when the insert
\* raises, leaves both alone); any other request leaves both alone; the
\* selection never changes.
OneRecordPerPass ==
    /\ mongo' = mongo
    /\ IF passLog' # passLog
       THEN /\ dispatch'.called
            /\ IF dispatch'.fails.primary
               THEN /\ accidents_collection' = accidents_collection
                    /\ accidents_db' = accidents_db
               ELSE /\ dispatch'.log.stored
                    /\ IF mongo
                       THEN /\ Len(accidents_collection') = Len(accidents_collection) + 1
                            /\ SubSeq(accidents_collection', 1, Len(accidents_collection))
                                  = accidents_collection
                            /\ Last(accidents_collection').timestamp = Last(passLog')
                            /\ Last(accidents_collection').status = "alert_sent"
                            /\ accidents_db' = accidents_db
                       ELSE /\ Len(accidents_db') = Len(accidents_db) + 1
                            /\ SubSeq(accidents_db', 1, Len(accidents_db)) = accidents_db
                            /\ Last(accidents_db').timestamp = Last(passLog')
                            /\ Last(accidents_db').status = "alert_sent"
                            /\ accidents_collection' = accidents_collection
       ELSE /\ accidents_collection' = accidents_collection
            /\ accidents_db' = accidents_db

\* C12: each gate pass creates exactly one record in exactly one primary store
\* (MongoDB when selected at import, else the in-memory list, never both),
\* the selection is the same on every call, no record is written without a
\* pass, and without store failure the number of non-seed records equals the
\* number of passes (the in-memory append cannot fail; a raising MongoDB
\* insert is the one way a pass leaves no record).
ExactlyOnePrimaryRecord ==
    /\ [](/\ NonSeedRecords <= Len(passLog)
          /\ mongo => Added(accidents_db) = << >>
          /\ ~mongo => /\ accidents_collection = << >>
                       /\ NonSeedRecords = Len(passLog))
    /\ [][OneRecordPerPass]_vars

\* C12 witness: MongoDB is selected, two requests have passed the gate, and
\* the collection holds two records beyond the seeds while the in-memory list
\* holds none.
ExactlyOnePrimaryRecordWitness ==
    /\ mongo
    /\ Len(passLog) = 2
    /\ Len(Added(accidents_collection)) = 2
    /\ Added(accidents_db) = << >>

(***************************************************************************)
(* Properties of the history query.                                        *)
(***************************************************************************)
Stamps(q) == [i \in 1..Len(q) |-> q[i].timestamp]
NonIncreasing(q) == \A i \in 1..(Len(q) - 1) : q[i] >= q[i + 1]
\* How many records of q are stamped v or later.
CountSince(q, v) == Cardinality({ i \in 1..Len(q) : q[i].timestamp >= v })

\* C13: get_accidents returns the records newest first (non-increasing
\* timestamps), never more than 50 of them and never leaving out a record
\* newer than one it returns, and the timestamps it returns are the same
\* whether the store is MongoDB (whatever order it gives to equal
\* timestamps) or the in-memory list.
HistoryNewestFirst ==
    history.kind = "ok" =>
        /\ NonIncreasing(Stamps(history.accidents))
        /\ Len(history.accidents) <= HISTORY_LIMIT
        /\ Len(history.accidents) = Min(HISTORY_LIMIT, Len(PrimaryStore))
        /\ \A i \in 1..Len(history.accidents) :
              \E j \in 1..Len(PrimaryStore) : history.accidents[i] = PrimaryStore[j]
        /\ \A v \in HistoryStamps :
              CountSince(history.accidents, v)
                 = Min(HISTORY_LIMIT, CountSince(PrimaryStore, v))
        /\ Stamps(history.accidents) = Stamps(MemoryQuery(PrimaryStore))
        /\ \A ties \in TieOrders :
              Stamps(history.accidents) = Stamps(MongoQuery(PrimaryStore, ties))

\* C13 witness: MongoDB holds more than 50 records of both timestamps and the
\* query returned exactly 50, the newest first and the oldest last.
HistoryNewestFirstWitness ==
    /\ mongo
    /\ history.kind = "ok"
    /\ Len(accidents_collection) > HISTORY_LIMIT
    /\ Len(history.accidents) = HISTORY_LIMIT
    /\ history.accidents[1].timestamp = 1
    /\ Last(history.accidents).timestamp = 0

(***************************************************************************)
(* Properties of the threshold.                                            *)
(***************************************************************************)
\* C14: in every reachable state the detector's threshold lies in
\* [0.1, 1.0]; whatever the state, an override of -5 yields 0.1 and an
\* override of 50 yields 1.0.
ThresholdInRange ==
    /\ detector.accident_threshold \in THRESHOLD_MIN..THRESHOLD_MAX
    /\ ApplyThreshold(detector, [kind |-> "num", val |-> -500]).accident_threshold
          = THRESHOLD_MIN
    /\ ApplyThreshold(detector, [kind |-> "num", val |-> 5000]).accident_threshold
          = THRESHOLD_MAX

\* C14 witness: the threshold stands at 0.1 after an override below the
\* range, and the last frame was evaluated against it: its score satisfies
\* raw_condition although it does not exceed the initial threshold of 0.5.
ThresholdInRangeWitness ==
    /\ detector.accident_threshold = THRESHOLD_MIN
    /\ evalLog # << >>
    /\ RawAt(Last(evalLog))
    /\ Last(evalLog).ret.accident_score <= INITIAL_THRESHOLD * 100

\* C15: a threshold override changes only the threshold, not accident_detected
\* and not previous_frame, so of two consecutive calls that both satisfy
\* raw_condition with the threshold raised or lowered between them the second
\* does not return is_accident = true.
OverrideChangesOnlyThreshold ==
    /\ \A ov \in Overrides \cup OtherOverrides :
          /\ ApplyThreshold(detector, ov).accident_detected = detector.accident_detected
          /\ ApplyThreshold(detector, ov).previous_frame = detector.previous_frame
    /\ (/\ Len(evalLog) = 2
        /\ RawAt(evalLog[1]) /\ RawAt(evalLog[2])
        /\ evalLog[1].threshold # evalLog[2].threshold)
          => ~evalLog[2].ret.is_accident

\* C15 witness: the first of two consecutive calls returned True at the
\* initial threshold, the threshold was then lowered, the second call
\* satisfied raw_condition and returned False, and the flag is still set.
OverrideChangesOnlyThresholdWitness ==
    /\ Len(evalLog) = 2
    /\ RawAt(evalLog[1]) /\ RawAt(evalLog[2])
    /\ evalLog[1].threshold = INITIAL_THRESHOLD
    /\ evalLog[2].threshold < INITIAL_THRESHOLD
    /\ evalLog[1].ret.is_accident
    /\ ~evalLog[2].ret.is_accident
    /\ detector.accident_detected

(***************************************************************************)
(* Properties of failing and degraded /detect requests.                    *)
(***************************************************************************)
\* Threshold, previous_frame, accident_detected, last_alert_time and the
\* record stores are the same after the step as before it.
CoreStateKept ==
    /\ detector' = detector
    /\ last_alert_time' = last_alert_time
    /\ accidents_collection' = accidents_collection
    /\ accidents_db' = accidents_db
    /\ firestore_docs' = firestore_docs

\* The step is one that a /detect request whose detection raised produces.
DetectionRaised ==
    /\ model
    /\ \E ov \in Overrides, i \in SystemImages, b \in SystemBoxLists :
         /\ i.kind = "frame"
         /\ detector' = ModelDetect(ApplyThreshold(detector, ov), i.frame, b, FALSE).det
         /\ resp'[1] = NoAccidentResponse(
                          ModelDetect(ApplyThreshold(detector, ov), i.frame, b, FALSE).ret,
                          FALSE)

\* C16 (as stated): a /detect request that fails on invalid input (no image,
\* undecodable image, detection raising) reports an error in its result and
\* leaves the core state unchanged.
FailedCallKeepsState ==
    [][ /\ resp'[1].kind = "error" => CoreStateKept
        /\ DetectionRaised => (resp'[1].kind = "error" /\ CoreStateKept) ]_vars

\* C17 (as stated): without a model every outcome of /detect follows the rule
\* of the model-backed mode: the score lies in [0.1, 0.9], vehicles_detected
\* in 0..3, and accident_detected = true implies that the score exceeds the
\* current threshold and that vehicles_detected > 0.
DegradedFollowsRule ==
    (~model /\ resp[1].kind = "ok") =>
        /\ resp[1].confidence \in 1000..9000
        /\ resp[1].vehicles_detected \in 0..3
        /\ resp[1].accident_detected =>
              /\ resp[1].confidence > detector.accident_threshold * 100
              /\ resp[1].vehicles_detected > 0

\* C18 (as stated): every outcome /detect produces without a model carries
\* demo_mode, whether a library is missing or the libraries are present and
\* the model failed to load.
DegradedIsFlagged ==
    (~model /\ resp[1].kind = "ok") => resp[1].demo_mode

(***************************************************************************)
(* Properties of streams and of the dispatch within a request.             *)
(***************************************************************************)
\* The detector state and the gate state a stream's request works on.  A
\* request carries no stream identifier: every request uses the one
\* module-level detector and the one last_alert_time.
DetectorStateOf(stream) == detector
GateStateOf(stream) == last_alert_time

\* The step belongs to the request of this stream.
StepOf(stream) == pc'[stream] # pc[stream] \/ resp'[stream] # resp[stream]

\* C19 (as stated): each stream has its own detector state and gate state: a
\* step of one stream's request never changes the previous_frame, flag,
\* threshold or last-alert timestamp another stream observes.
StreamsIndependent ==
    [][ \A a, b \in Threads :
          (a # b /\ StepOf(a)) =>
              /\ DetectorStateOf(b)' = DetectorStateOf(b)
              /\ GateStateOf(b)' = GateStateOf(b) ]_vars

\* C20 (as stated): dispatch is fire-and-forget: a request that passed the
\* gate gets its response whether or not send_alert's store writes, SMS sends
\* and email ever finish.
ResponseNotDelayed ==
    \A t \in Threads : (pc[t] = "set") ~> (resp[t].kind = "ok")

(***************************************************************************)
(* Properties of concurrent detect_accident calls.                         *)
(***************************************************************************)
\* The call of thread t is between its first statement and its return.
InCall(t) == pc[t] \in {"loop", "test", "mark"}

\* C21 (as stated): two detect_accident calls never interleave on the shared
\* detector state: no two calls have both found accident_detected false at
\* line 330 (and so both return True for one rising edge), the boxes of one
\* call are all compared with the same previous frame, and the frame a call
\* replaces at line 326 is the one it compared with.
DetectCallsSerialized ==
    /\ \A t, u \in Threads : (pc[t] = "mark" /\ pc[u] = "mark") => t = u
    /\ \A t \in Threads :
          InCall(t) =>
              /\ Cardinality(loc[t].seen) <= 1
              /\ (pc[t] # "loop" /\ loc[t].seen # {}) => loc[t].replaced \in loc[t].seen

(***************************************************************************)
(* Properties of the score and the vehicle count of one call.              *)
(***************************************************************************)
\* The boxes of a list, by position, whose class is one of classes and whose
\* confidence is above floor, or equal to it when atFloor.
Surviving(boxes, classes, floor, atFloor) ==
    { i \in 1..Len(boxes) :
        /\ boxes[i].class_id \in classes
        /\ \/ boxes[i].confidence > floor
           \/ atFloor /\ boxes[i].confidence = floor }

\* The sum of the confidences of the boxes at the positions in idx.
RECURSIVE ConfidenceSum(_, _)
ConfidenceSum(boxes, idx) ==
    IF idx = {} THEN 0
    ELSE LET i == CHOOSE j \in idx : TRUE
         IN  boxes[i].confidence + ConfidenceSum(boxes, idx \ {i})

\* C22: when no previous frame is stored the call returns accident_score 0
\* and is_accident = false, whatever the number and confidence of the vehicles
\* in the frame and whatever the threshold, and the flag is clear after it.
FirstFrameNoAccident ==
    (evalLog # << >> /\ Last(evalLog).prev = NoFrame) =>
        /\ Last(evalLog).ret.accident_score = 0
        /\ ~Last(evalLog).ret.is_accident
        /\ ~Last(evalLog).raw
        /\ ~Last(evalLog).failed => ~detector.accident_detected

\* C22 witness: the first frame of the stream showed three vehicles, was
\* evaluated at the lowest threshold, 0.1, and returned score 0 and no
\* accident.
FirstFrameNoAccidentWitness ==
    /\ Len(evalLog) = 1
    /\ Last(evalLog).prev = NoFrame
    /\ Last(evalLog).threshold = THRESHOLD_MIN
    /\ Last(evalLog).ret.vehicles_detected = 3
    /\ Last(evalLog).ret.accident_score = 0
    /\ ~Last(evalLog).ret.is_accident

\* C23: when a previous frame exists and the call completes, the score it
\* returns is the sum of confidence * motion over every vehicle box above the
\* confidence floor if motion > 0.15 and 0 if motion <= 0.15, and it is the
\* score the decision is taken on: the call returns True exactly when that
\* score exceeds the threshold, a vehicle was counted and accident_detected
\* was false before.
ScoreSumsEveryVehicle ==
    (/\ evalLog # << >>
     /\ Last(evalLog).prev # NoFrame
     /\ ~Last(evalLog).failed) =>
        LET e == Last(evalLog)
            motion == MotionScore(e.frame, e.prev)
            vehicles == Surviving(e.boxes, VEHICLE_CLASSES, CONF_FLOOR, FALSE)
        IN  /\ e.ret.accident_score =
                  IF motion > MOTION_FLOOR
                  THEN ConfidenceSum(e.boxes, vehicles) * motion
                  ELSE 0
            /\ e.ret.is_accident <=>
                  /\ RawCondition(e.ret.accident_score, e.ret.vehicles_detected,
                                  e.threshold)
                  /\ ~e.before

\* C23 witness: a frame with two vehicles of confidence 0.9 and 0.31 and a
\* person, at motion 0.6 against the previous frame, returned the score
\* (0.9 + 0.31) * 0.6 = 0.726 and is_accident = true.
ScoreSumsEveryVehicleWitness ==
    /\ evalLog # << >>
    /\ Last(evalLog).prev # NoFrame
    /\ ~Last(evalLog).failed
    /\ Last(evalLog).boxes = << Box(7, 31), Box(0, 90), Box(2, 90) >>
    /\ MotionScore(Last(evalLog).frame, Last(evalLog).prev) = 60
    /\ Last(evalLog).ret.accident_score = 7260
    /\ Last(evalLog).ret.is_accident

PreviousFrameIsLastFrame ==
    /\ evalLog # << >> => detector.previous_frame = Last(evalLog).frame
    /\ Len(evalLog) = 2 => evalLog[2].prev = evalLog[1].frame

\* C29 (as stated): the detector recovers from a failed evaluation: after a
\* call that raised in the motion comparison and returned (False, 0, 0, []),
\* a well-formed frame with the same properties as the failing one is
\* evaluated normally.
RecoversAfterFailure ==
    (/\ Len(evalLog) = 2
     /\ evalLog[1].raised
     /\ evalLog[2].inferOK
     /\ evalLog[2].repeats) => ~evalLog[2].failed

(***************************************************************************)
(* Properties of the gate and the dispatch within a /detect request.       *)
(***************************************************************************)
\* C26 (as stated): a response with alert_sent = true means that send_alert
\* returned True for the request and that its record is in the primary store.
AlertSentMeansStored ==
    resp[1].alert_sent = "true" =>
        /\ dispatch.called
        /\ dispatch.ret = "True"
        /\ dispatch.log.stored
        /\ PrimaryStore # << >>
        /\ Last(PrimaryStore).timestamp = Last(passLog)

\* The step is a request with is_accident = true whose 'now' lies inside the
\* cooldown window of last_alert_time.
AccidentInsideWindow ==
    /\ resp'[1].kind = "ok"
    /\ resp'[1].alert_sent # "absent"
    /\ clock' - last_alert_time < ALERT_COOLDOWN_SECONDS

\* The request of the step was suppressed and changed nothing.
SuppressedStep ==
    /\ resp'[1].alert_sent = "false"
    /\ resp'[1].alert_suppressed = "true"
    /\ ~dispatch'.called
    /\ last_alert_time' = last_alert_time
    /\ passLog' = passLog
    /\ accidents_collection' = accidents_collection
    /\ accidents_db' = accidents_db

\* C27: a gate pass whose send_alert returned False leaves last_alert_time at
\* that request's 'now' (it is the latest pass), and every accident request
\* whose 'now' is within ALERT_COOLDOWN_SECONDS of last_alert_time is
\* suppressed, whatever the dispatch of the last pass returned.
FailedDispatchConsumesWindow ==
    /\ [](passLog # << >> => last_alert_time = Last(passLog))
    /\ [][ (dispatch'.called /\ dispatch'.ret = "False") =>
              /\ passLog' = Append(passLog, clock')
              /\ last_alert_time' = clock'
              /\ resp'[1].alert_sent = "true" ]_vars
    /\ [][ AccidentInsideWindow => SuppressedStep ]_vars

\* C27 witness: MongoDB is selected, the one request that passed the gate
\* left no record (its insert raised and send_alert returned False), and an
\* accident request 10 seconds after it has been suppressed.
FailedDispatchConsumesWindowWitness ==
    /\ mongo
    /\ Len(passLog) = 1
    /\ NonSeedRecords = 0
    /\ last_alert_time = passLog[1]
    /\ passLog[1] + 10 \in suppressed
    /\ resp[1].alert_suppressed = "true"
    /\ clock = passLog[1] + 10

\* The request of the step evaluated a frame on which raw_condition holds
\* (its score exceeds the threshold in force and it shows a vehicle) while
\* accident_detected was already set: the frame continues a run.
RunContinues ==
    /\ model
    /\ detector.accident_detected
    /\ resp'[1].kind = "ok"
    /\ RawCondition(resp'[1].confidence, resp'[1].vehicles_detected,
                    detector'.accident_threshold)

\* The request of the step reported no accident and made no gate check.
NoGateCheck ==
    /\ ~resp'[1].accident_detected
    /\ resp'[1].alert_sent = "absent"
    /\ ~dispatch'.called
    /\ passLog' = passLog
    /\ suppressed' = suppressed
    /\ last_alert_time' = last_alert_time
    /\ clock' = clock
    /\ detector'.accident_detected

\* C28: in model-backed mode with sequential requests, a frame that continues
\* a run of frames satisfying raw_condition returns is_accident = false and
\* makes no gate check, however long ago the last alert was: only the rising
\* edge of a run reaches the gate, and if the cooldown suppressed it no later
\* frame of the run is dispatched.
SuppressedEdgeNotRetried == [][ RunContinues => NoGateCheck ]_vars

\* C28 witness: one alert has passed, the rising edge of the current run was
\* suppressed by its cooldown, the cooldown has since expired, and the last
\* request, a frame of the same run, was answered without accident and
\* without a gate check.
SuppressedEdgeNotRetriedWitness ==
    /\ Len(passLog) = 1
    /\ suppressed # {}
    /\ detector.accident_detected
    /\ clock - last_alert_time >= ALERT_COOLDOWN_SECONDS
    /\ resp[1].kind = "ok"
    /\ RawCondition(resp[1].confidence, resp[1].vehicles_detected,
                    detector.accident_threshold)
    /\ ~resp[1].accident_detected
    /\ resp[1].alert_sent = "absent"

(***************************************************************************)
(* Properties of the history against the dispatches.                       *)
(***************************************************************************)
\* The record send_alert builds in this step from the location in force.
RecordOfStep ==
    AccidentRecord(AccidentData("ok", current_location, Geocodes(current_location),
                                5400, 1), clock')

\* What a step does to the primary store: the records it holds stay as they
\* are, in place, and a dispatch appends the one record built from the
\* location in force at the dispatch.
AppendOnly ==
    /\ Len(PrimaryStore') >= Len(PrimaryStore)
    /\ SubSeq(PrimaryStore', 1, Len(PrimaryStore)) = PrimaryStore
    /\ Len(PrimaryStore') > Len(PrimaryStore) =>
          /\ Len(PrimaryStore') = Len(PrimaryStore) + 1
          /\ dispatch'.ret = "True"
          /\ Last(PrimaryStore') = RecordOfStep

\* C30: the history reads what the dispatches wrote: send_alert and
\* get_accidents select the same store, that store is append-only (no
\* update_location and no later dispatch changes a record in it), and a
\* successful query returns every record of it that is among the 50 newest,
\* with the fields it was written with.
HistoryReadsDispatches ==
    /\ [](history.kind = "ok" =>
            /\ \A j \in 1..Len(PrimaryStore) :
                  CountSince(PrimaryStore, PrimaryStore[j].timestamp) <= HISTORY_LIMIT
                     => \E i \in 1..Len(history.accidents) :
                           history.accidents[i] = PrimaryStore[j]
            /\ \A i \in 1..Len(history.accidents) :
                  \E j \in 1..Len(PrimaryStore) :
                     history.accidents[i] = PrimaryStore[j])
    /\ [][AppendOnly]_vars

\* C30 witness: a record was written at the default location, the location
\* was then updated and further alerts were recorded until the store held
\* more than 50 records; the query returned 50 records, the first one written
\* by send_alert being the oldest of them with its original coordinates and
\* location text, and the two seeded records left out.
HistoryReadsDispatchesWitness ==
    /\ history.kind = "ok"
    /\ Len(PrimaryStore) = HISTORY_LIMIT + 2
    /\ Len(history.accidents) = HISTORY_LIMIT
    /\ current_location = [lat |-> 12, lng |-> 34]
    /\ Last(PrimaryStore).coordinates = [lat |-> 12, lng |-> 34]
    /\ Last(history.accidents) = PrimaryStore[3]
    /\ PrimaryStore[3].coordinates = [lat |-> 28, lng |-> 77]
    /\ PrimaryStore[3].location.kind = "address"
    /\ history.accidents[1] = Last(PrimaryStore)

=============================================================================
